---------------------------- MODULE Spec2Model ----------------------------
(***************************************************************************)
(* Model of Nuclei-PoC_Deduplication.py: the per-file evaluation           *)
(* (process_file) and the concurrent dedup loop of main.                   *)
(*                                                                         *)
(* A file text is a sequence of tokens.  A token is either one character   *)
(* (" ", "\n", "#", "a", "b") or a whole word of the template language     *)
(* ("http:", "severity:", "info", "GET", "/readme.txt", ...).  The token   *)
(* set is chosen so that no keyword or marker the program searches for     *)
(* can arise across a token boundary, hence every regular expression and   *)
(* substring test of the program is decided token by token.  Line breaks   *)
(* are "\n" only (open() in text mode translates "\r" and "\r\n").         *)
(***************************************************************************)
EXTENDS Integers, Sequences, FiniteSets, TLC

(***************************************************************************)
(* Text primitives used by process_file                                    *)
(***************************************************************************)

\* \s of the re module, on the tokens of the model
Whitespace == {" ", "\n"}

\* the alternatives of r'^(requests|http):'
Markers == {"requests:", "http:"}

\* the literal of r'^\s*severity:\s*(\w+)'
SeverityKey == "severity:"

primary_keywords == {"HTTP", "GET", "POST", "PUT", "BaseURL"}

secondary_keywords == {"/readme.txt", "/style.css"}

\* tokens made of \w characters only
WordTokens == {"a", "b", "info", "INFO", "high", "HTTP", "GET", "POST", "PUT", "BaseURL"}

\* the longest \w prefix of a token that is not a word token ("" if none)
WordPrefix(t) ==
  CASE t = "http:" -> "http"
    [] t = "requests:" -> "requests"
    [] t = "severity:" -> "severity"
    [] OTHER -> ""

\* str.lower() on one word piece
LowerPiece(t) ==
  CASE t = "INFO" -> "info"
    [] t = "HTTP" -> "http"
    [] t = "GET" -> "get"
    [] t = "POST" -> "post"
    [] t = "PUT" -> "put"
    [] t = "BaseURL" -> "baseurl"
    [] OTHER -> t

\* str.lower() on a word given as its pieces
Lower(w) == [k \in 1..Len(w) |-> LowerPiece(w[k])]

\* index of the first "\n" of s, 0 if none
FirstBreak(s) ==
  IF \E k \in 1..Len(s) : s[k] = "\n"
  THEN CHOOSE k \in 1..Len(s) : s[k] = "\n" /\ \A j \in 1..(k-1) : s[j] # "\n"
  ELSE 0

RECURSIVE SplitLines(_)
\* str.splitlines(): no empty last line after a final line break
SplitLines(s) ==
  IF s = <<>> THEN <<>>
  ELSE LET k == FirstBreak(s) IN
       IF k = 0 THEN <<s>>
       ELSE <<SubSeq(s, 1, k-1)>> \o SplitLines(SubSeq(s, k+1, Len(s)))

RECURSIVE LStrip(_)
LStrip(l) == IF l # <<>> /\ l[1] \in Whitespace THEN LStrip(Tail(l)) ELSE l

RECURSIVE RStrip(_)
RStrip(l) ==
  IF l # <<>> /\ l[Len(l)] \in Whitespace THEN RStrip(SubSeq(l, 1, Len(l)-1)) ELSE l

\* str.strip()
Strip(l) == RStrip(LStrip(l))

\* IsCommentLine without strip()
IsCommentLineNoStrip(l) == l # <<>> /\ l[1] = "#"

\* line.strip().startswith('#')
IsCommentLine(l) == LET t == Strip(l) IN t # <<>> /\ t[1] = "#"

RECURSIVE JoinLines(_)
\* "\n".join(lines)
JoinLines(ls) ==
  IF ls = <<>> THEN <<>>
  ELSE IF Len(ls) = 1 THEN ls[1]
  ELSE ls[1] \o <<"\n">> \o JoinLines(Tail(ls))

\* RemoveWhitespace replacing the first run of whitespace only (count=1)
RemoveWhitespaceOnce(s) ==
  LET ws == {k \in 1..Len(s) : s[k] \in Whitespace}
      b == CHOOSE k \in ws : \A j \in ws : k <= j
      rest == {k \in b..Len(s) : s[k] \notin Whitespace}
      e == IF rest = {} THEN Len(s) + 1 ELSE CHOOSE k \in rest : \A j \in rest : k <= j
  IN IF ws = {} THEN s ELSE SubSeq(s, 1, b - 1) \o SubSeq(s, e, Len(s))

\* re.sub(r'\s+', '', s)
RemoveWhitespace(s) == SelectSeq(s, LAMBDA t : t \notin Whitespace)

\* a position where ^ of re.MULTILINE matches
IsLineStart(s, p) == p = 1 \/ (p > 1 /\ p <= Len(s) + 1 /\ s[p-1] = "\n")

\* MatchReq with the marker accepted anywhere in the text
MatchReqAnywhere(content) ==
  LET hits == {p \in 1..Len(content) : content[p] \in Markers}
  IN IF hits = {} THEN 0 ELSE CHOOSE p \in hits : \A q \in hits : p <= q

\* re.search(r'^(requests|http):', content, re.MULTILINE): start of the
\* first match, 0 for no match
MatchReq(content) ==
  LET hits == {p \in 1..Len(content) : IsLineStart(content, p) /\ content[p] \in Markers}
  IN IF hits = {} THEN 0 ELSE CHOOSE p \in hits : \A q \in hits : p <= q

\* content[match_req.start():]
RequestBlockRaw(content) == SubSeq(content, MatchReq(content), Len(content))

\* CleanedLines keeping the comment lines
CleanedLinesKeepComments(block) == SplitLines(block)

\* cleaned_lines: the lines of the block that are not comment lines
CleanedLines(block) == SelectSeq(SplitLines(block), LAMBDA l : ~IsCommentLine(l))

\* condensed_content
Condense(block) == RemoveWhitespace(JoinLines(CleanedLines(block)))

\* hashlib.md5(s.encode('utf-8')).hexdigest(): a deterministic digest of the
\* text; digests of different texts are taken to differ (no collision).
Md5Hex(s) == [md5 |-> s]

\* the tokens of s from index p on that \s* skips: index of the first token
\* at or after p that is not whitespace, Len(s)+1 if there is none
SkipWhitespace(s, p) ==
  LET rest == {k \in p..Len(s) : s[k] \notin Whitespace}
  IN IF rest = {} THEN Len(s) + 1 ELSE CHOOSE k \in rest : \A j \in rest : k <= j

\* what (\w+) captures from index w on, as word pieces; <<>> if s[w] does
\* not begin with a \w character
CaptureWord(s, w) ==
  LET stops == {k \in w..Len(s) : s[k] \notin WordTokens}
      e == IF stops = {} THEN Len(s) + 1 ELSE CHOOSE k \in stops : \A j \in stops : k <= j
      tailPiece == IF e <= Len(s) /\ WordPrefix(s[e]) # "" THEN <<WordPrefix(s[e])>> ELSE <<>>
  IN IF w > Len(s) THEN <<>> ELSE SubSeq(s, w, e - 1) \o tailPiece

\* positions q of "severity:" where r'^\s*severity:\s*(\w+)' matches: only
\* whitespace between some line start and q, and a word after the key
SeverityHits(content) ==
  {q \in 1..Len(content) :
      /\ content[q] = SeverityKey
      /\ \E p \in 1..q : IsLineStart(content, p) /\ SkipWhitespace(content, p) = q
      /\ CaptureWord(content, SkipWhitespace(content, q + 1)) # <<>>}

\* re.search(r'^\s*severity:\s*(\w+)', content, re.MULTILINE): group(1) of
\* the first match, <<>> for no match
MatchSev(content) ==
  LET hits == SeverityHits(content)
  IN IF hits = {} THEN <<>>
     ELSE LET q == CHOOSE h \in hits : \A j \in hits : h <= j
          IN CaptureWord(content, SkipWhitespace(content, q + 1))

\* result['severity']
SeverityOf(content) ==
  IF MatchSev(content) = <<>> THEN <<"unknown">> ELSE Lower(MatchSev(content))

\* any(p_kw in line ...) and any(s_kw in line ...)
LineHasKeywords(line) ==
  /\ \E k \in 1..Len(line) : line[k] \in primary_keywords
  /\ \E k \in 1..Len(line) : line[k] \in secondary_keywords

\* result['skip_keyword']
SkipKeywordOf(content) ==
  LET ls == SplitLines(content) IN \E k \in 1..Len(ls) : LineHasKeywords(ls[k])

\* the value process_file returns for a file it could not use
None == [none |-> TRUE, path |-> 0, filename |-> "", hash |-> [md5 |-> <<>>],
         severity |-> <<>>, skip_keyword |-> FALSE]

\* process_file: f is a file of all_files, [path, filename, readable, text]
process_file(f) ==
  IF ~f.readable THEN None
  ELSE IF MatchReq(f.text) = 0 THEN None
  ELSE [none |-> FALSE, path |-> f.path, filename |-> f.filename,
        hash |-> Md5Hex(Condense(RequestBlockRaw(f.text))),
        severity |-> SeverityOf(f.text),
        skip_keyword |-> SkipKeywordOf(f.text)]

(***************************************************************************)
(* Inputs of a run                                                         *)
(***************************************************************************)

\* most files a run enumerates
MaxFiles == 2

\* default of --workers
DefaultWorkers == 4

\* values of --workers: one worker thread, or more threads than files
WorkerOptions == {1, DefaultWorkers}

\* a template with an http: block
PocPlain == <<"http:", "\n", "a">>

\* PocPlain with a comment line inserted in the block
PocComment == <<"http:", "\n", "#", "b", "\n", "a">>

\* PocPlain with an inserted comment line that names a static asset
PocKeywordComment == <<"http:", "\n", "#", "GET", "/readme.txt", "\n", "a">>

\* PocPlain with a severity line before the block and an indented block body
PocInfo == <<"severity:", " ", "INFO", "\n", "http:", "\n", " ", "a">>

\* a template with another block
PocOther == <<"requests:", "\n", "b">>

\* a text whose only marker is indented, no line starts with it; the line
\* names a static asset
NotPoc == <<" ", "http:", " ", "GET", "/readme.txt">>

Corpus == {PocPlain, PocComment, PocKeywordComment, PocInfo, PocOther, NotPoc}

\* the names os.path.basename can give
FileNames == {"a.yaml", "b.yml"}

\* the names file k can have; the first file's name is fixed, names being
\* interchangeable
NamesAt(k) == IF k = 1 THEN {"a.yaml"} ELSE FileNames

\* the files os.walk can yield at position k: a readable text of the corpus,
\* or a file open()/read() raises on
FilesAt(k) ==
  {[path |-> k, filename |-> nm, readable |-> TRUE, text |-> t] : nm \in NamesAt(k), t \in Corpus}
  \cup {[path |-> k, filename |-> nm, readable |-> FALSE, text |-> <<>>] : nm \in NamesAt(k)}

\* the lists all_files can be: n files with distinct paths
FileLists(n) == {fs \in [1..n -> UNION {FilesAt(k) : k \in 1..n}] : \A k \in 1..n : fs[k] \in FilesAt(k)}

\* every file a run may enumerate
AllFiles == UNION {FilesAt(k) : k \in 1..MaxFiles}

\* what the evaluation of each file returns, worked out once per file
ResultTable == [f \in AllFiles |-> process_file(f)]

\* values of --exclude-severity (default ['info'])
ExcludeOptions == {{<<"info">>}, {<<"high">>}}

\* the option values worth telling apart for a file list: the exclusion set
\* where a file states a severity, --collect-errors where a file cannot be read
ExcludeOptionsFor(fs) ==
  IF \E k \in DOMAIN fs : fs[k].readable /\ MatchSev(fs[k].text) # <<>>
  THEN ExcludeOptions ELSE {{<<"info">>}}

CollectOptionsFor(fs) ==
  IF \E k \in DOMAIN fs : ~fs[k].readable THEN BOOLEAN ELSE {FALSE}

(***************************************************************************)
(* State of a run                                                          *)
(***************************************************************************)

VARIABLES
  all_files,         \* the enumerated .yaml/.yml files
  exclude_severity,  \* args.exclude_severity
  workers,           \* args.workers
  collect_errors,    \* args.collect_errors
  pc,                \* position of main
  future,            \* state of the future of each submitted file
  acFinished,        \* as_completed: futures found finished when it was called
  acWaiter,          \* as_completed: futures finished since, in finishing order
  seen_hashes,
  stats,
  dest,              \* output directory: filename -> path of the file copied there, 0 if none
  error_files,       \* filenames in the error_files directory
  copied,            \* paths copied to the output directory so far
  drained,           \* paths whose result main has taken, in order
  run,               \* 1 for a first run, 2 for a second run on the same input
  prevReport,        \* statistics the first run reported
  sigA,              \* a signature block
  sigB,              \* a text obtained from sigA by edits
  touched            \* has an edit put or removed a line break at a comment line

inputVars == <<all_files, exclude_severity, collect_errors>>

poolVars == <<future, acFinished, acWaiter, error_files>>

mainVars == <<seen_hashes, stats, dest, copied, drained>>

textVars == <<sigA, sigB, touched>>

vars == <<all_files, exclude_severity, workers, collect_errors, pc, future, acFinished,
          acWaiter, seen_hashes, stats, dest, error_files, copied, drained, run,
          prevReport, sigA, sigB, touched>>

NumFiles == Len(all_files)

\* stats as main initialises it
ZeroStats == [copied |-> 0, duplicate |-> 0, severity_skipped |-> 0,
              keyword_skipped |-> 0, error |-> 0]

\* the state of main and the pool before anything is submitted
FreshRun ==
  /\ pc = "collected"
  /\ future = <<>>
  /\ acFinished = {}
  /\ acWaiter = <<>>
  /\ seen_hashes = {}
  /\ stats = ZeroStats
  /\ dest = [nm \in FileNames |-> 0]
  /\ error_files = {}
  /\ copied = {}
  /\ drained = <<>>

\* after argument parsing, makedirs and the os.walk loop
Init ==
  /\ \E n \in 0..MaxFiles : all_files \in FileLists(n)
  /\ exclude_severity \in ExcludeOptionsFor(all_files)
  /\ workers \in WorkerOptions
  /\ collect_errors \in CollectOptionsFor(all_files)
  /\ FreshRun
  /\ run = 1
  /\ prevReport = ZeroStats
  /\ sigA = <<>>
  /\ sigB = <<>>
  /\ touched = FALSE

(***************************************************************************)
(* The worker pool (ThreadPoolExecutor) and as_completed                   *)
(***************************************************************************)

Running == {k \in DOMAIN future : future[k] = "RUNNING"}

Pending == {k \in DOMAIN future : future[k] = "PENDING"}

Finished == {k \in DOMAIN future : future[k] = "FINISHED"}

\* the work item a free worker thread takes: the oldest one of the queue,
\* while fewer than max_workers evaluations run
CanStart(k) ==
  /\ k \in Pending
  /\ \A j \in Pending : k <= j
  /\ Cardinality(Running) < workers

\* the futures as_completed can yield next: any of those found finished at
\* its call, then the later ones in finishing order
NextFutures ==
  IF acFinished # {} THEN acFinished
  ELSE IF acWaiter # <<>> THEN {Head(acWaiter)} ELSE {}

\* as_completed after it has yielded k
Yielded(k) ==
  /\ acFinished' = acFinished \ {k}
  /\ acWaiter' = IF acFinished = {} THEN Tail(acWaiter) ELSE acWaiter

\* WaiterAfter losing the notification
WaiterAfterLost(k) == acWaiter

\* the futures the waiter of as_completed holds once k has finished: it is
\* notified only if as_completed was called before
WaiterAfter(k) == IF pc = "drain" THEN Append(acWaiter, k) ELSE acWaiter

\* future.result() of the future of file k
FutureResult(k) == ResultTable[all_files[k]]

\* does the except branch of process_file run for f
Raises(f) == ~f.readable

(***************************************************************************)
(* The precedence of main's loop body                                      *)
(***************************************************************************)

\* Outcome without the test of the keyword flag
OutcomeNoKeyword(result, seen, exclude) ==
  IF result.none THEN "error"
  ELSE IF result.hash \in seen THEN "duplicate"
  ELSE IF result.severity \in exclude THEN "severity_skipped"
  ELSE "copied"

\* Outcome without the test of seen_hashes
OutcomeNoDedup(result, seen, exclude) ==
  IF result.none THEN "error"
  ELSE IF result.severity \in exclude THEN "severity_skipped"
  ELSE IF result.skip_keyword THEN "keyword_skipped"
  ELSE "copied"

\* Outcome without the test of the severity
OutcomeNoSeverity(result, seen, exclude) ==
  IF result.none THEN "error"
  ELSE IF result.hash \in seen THEN "duplicate"
  ELSE IF result.skip_keyword THEN "keyword_skipped"
  ELSE "copied"

\* Outcome with the severity tested before seen_hashes
OutcomeSeverityFirst(result, seen, exclude) ==
  IF result.none THEN "error"
  ELSE IF result.severity \in exclude THEN "severity_skipped"
  ELSE IF result.hash \in seen THEN "duplicate"
  ELSE IF result.skip_keyword THEN "keyword_skipped"
  ELSE "copied"

\* Outcome counting a missing result with the duplicates
OutcomeErrorAsDuplicate(result, seen, exclude) ==
  IF result.none THEN "duplicate"
  ELSE IF result.hash \in seen THEN "duplicate"
  ELSE IF result.severity \in exclude THEN "severity_skipped"
  ELSE IF result.skip_keyword THEN "keyword_skipped"
  ELSE "copied"

\* the counter main increments for a result
Outcome(result, seen, exclude) ==
  IF result.none THEN "error"
  ELSE IF result.hash \in seen THEN "duplicate"
  ELSE IF result.severity \in exclude THEN "severity_skipped"
  ELSE IF result.skip_keyword THEN "keyword_skipped"
  ELSE "copied"

\* SeenAfter adding the hash of a severity-excluded file too
SeenAfterSeverity(result, o, seen) ==
  IF o \in {"copied", "severity_skipped"} THEN seen \cup {result.hash} ELSE seen

\* SeenAfter adding the hash of a keyword-excluded file too
SeenAfterKeyword(result, o, seen) ==
  IF o \in {"copied", "keyword_skipped"} THEN seen \cup {result.hash} ELSE seen

\* SeenAfter with the insertion forgotten
SeenAfterNever(result, o, seen) == seen

\* SeenAfter adding the hash of every result that is no duplicate
SeenAfterEager(result, o, seen) ==
  IF o \in {"copied", "severity_skipped", "keyword_skipped"}
  THEN seen \cup {result.hash} ELSE seen

\* seen_hashes after the iteration for a result counted as o
SeenAfter(result, o, seen) == IF o = "copied" THEN seen \cup {result.hash} ELSE seen

(***************************************************************************)
(* Actions                                                                 *)
(***************************************************************************)

\* if not all_files: warning and return
NoFiles ==
  /\ pc = "collected"
  /\ all_files = <<>>
  /\ pc' = "returned"
  /\ UNCHANGED <<inputVars, workers, poolVars, mainVars, run, prevReport, textVars>>

\* the executor is created and every file is submitted, in order
SubmitAll ==
  /\ pc = "collected"
  /\ all_files # <<>>
  /\ future' = [k \in 1..NumFiles |-> "PENDING"]
  /\ pc' = "submitted"
  /\ UNCHANGED <<inputVars, workers, acFinished, acWaiter, error_files, mainVars,
                 run, prevReport, textVars>>

\* a worker thread takes the next work item
StartEval(k) ==
  /\ CanStart(k)
  /\ future' = [future EXCEPT ![k] = "RUNNING"]
  /\ UNCHANGED <<inputVars, workers, pc, acFinished, acWaiter, error_files, mainVars,
                 run, prevReport, textVars>>

\* FinishEval with the worker counting its own failure in stats
FinishEvalCounting(k) ==
  /\ k \in Running
  /\ future' = [future EXCEPT ![k] = "FINISHED"]
  /\ acWaiter' = WaiterAfter(k)
  /\ IF Raises(all_files[k]) /\ collect_errors
     THEN \E copyOk \in BOOLEAN :
            error_files' = IF copyOk THEN error_files \cup {all_files[k].filename}
                           ELSE error_files
     ELSE error_files' = error_files
  /\ stats' = IF Raises(all_files[k]) THEN [stats EXCEPT !["error"] = @ + 1] ELSE stats
  /\ UNCHANGED <<inputVars, workers, pc, acFinished, seen_hashes, dest, copied, drained,
                 run, prevReport, textVars>>

\* process_file returns in a worker thread; on an exception the file is
\* copied to error_files when asked for, unless that copy raises too
FinishEval(k) ==
  /\ k \in Running
  /\ future' = [future EXCEPT ![k] = "FINISHED"]
  /\ acWaiter' = WaiterAfter(k)
  /\ IF Raises(all_files[k]) /\ collect_errors
     THEN \E copyOk \in BOOLEAN :
            error_files' = IF copyOk THEN error_files \cup {all_files[k].filename}
                           ELSE error_files
     ELSE error_files' = error_files
  /\ UNCHANGED <<inputVars, workers, pc, acFinished, mainVars, run, prevReport, textVars>>

\* main calls as_completed
AsCompleted ==
  /\ pc = "submitted"
  /\ pc' = "drain"
  /\ acFinished' = Finished
  /\ UNCHANGED <<inputVars, workers, future, acWaiter, error_files, mainVars,
                 run, prevReport, textVars>>

\* Drain without the continue after the duplicate count: the iteration goes
\* on to the tests that follow
DrainNoContinue(k) ==
  /\ pc = "drain"
  /\ k \in NextFutures
  /\ Yielded(k)
  /\ LET result == FutureResult(k)
         first == Outcome(result, seen_hashes, exclude_severity)
         o == IF first = "duplicate" THEN Outcome(result, {}, exclude_severity) ELSE first
         counted == IF first = "duplicate" THEN [stats EXCEPT !["duplicate"] = @ + 1] ELSE stats
     IN /\ stats' = [counted EXCEPT ![o] = @ + 1]
        /\ seen_hashes' = SeenAfter(result, o, seen_hashes)
        /\ IF o = "copied"
           THEN /\ dest' = [dest EXCEPT ![result.filename] = result.path]
                /\ copied' = copied \cup {result.path}
           ELSE UNCHANGED <<dest, copied>>
  /\ drained' = Append(drained, k)
  /\ UNCHANGED <<inputVars, workers, pc, future, error_files, run, prevReport, textVars>>

\* Drain that does not copy over a file the output directory already holds
DrainFirstWriteWins(k) ==
  /\ pc = "drain"
  /\ k \in NextFutures
  /\ Yielded(k)
  /\ LET result == FutureResult(k)
         o == Outcome(result, seen_hashes, exclude_severity)
     IN /\ stats' = [stats EXCEPT ![o] = @ + 1]
        /\ seen_hashes' = SeenAfter(result, o, seen_hashes)
        /\ IF o = "copied"
           THEN /\ dest' = IF dest[result.filename] = 0
                           THEN [dest EXCEPT ![result.filename] = result.path] ELSE dest
                /\ copied' = copied \cup {result.path}
           ELSE UNCHANGED <<dest, copied>>
  /\ drained' = Append(drained, k)
  /\ UNCHANGED <<inputVars, workers, pc, future, error_files, run, prevReport, textVars>>

\* one iteration of the loop over as_completed that runs to its end
Drain(k) ==
  /\ pc = "drain"
  /\ k \in NextFutures
  /\ Yielded(k)
  /\ LET result == FutureResult(k)
         o == Outcome(result, seen_hashes, exclude_severity)
     IN /\ stats' = [stats EXCEPT ![o] = @ + 1]
        /\ seen_hashes' = SeenAfter(result, o, seen_hashes)
        /\ IF o = "copied"
           THEN /\ dest' = [dest EXCEPT ![result.filename] = result.path]
                /\ copied' = copied \cup {result.path}
           ELSE UNCHANGED <<dest, copied>>
  /\ drained' = Append(drained, k)
  /\ UNCHANGED <<inputVars, workers, pc, future, error_files, run, prevReport, textVars>>

\* an iteration in which shutil.copy2 raises: the hash is already added, the
\* exception leaves the loop and main; the file in the output directory is
\* written or not, depending on where the copy failed
DrainCopyRaises(k) ==
  /\ pc = "drain"
  /\ k \in NextFutures
  /\ Yielded(k)
  /\ LET result == FutureResult(k)
     IN /\ Outcome(result, seen_hashes, exclude_severity) = "copied"
        /\ seen_hashes' = SeenAfter(result, "copied", seen_hashes)
        /\ \E written \in BOOLEAN :
             dest' = IF written THEN [dest EXCEPT ![result.filename] = result.path] ELSE dest
  /\ drained' = Append(drained, k)
  /\ pc' = "aborted"
  /\ UNCHANGED <<inputVars, workers, future, error_files, stats, copied,
                 run, prevReport, textVars>>

\* the loop is exhausted, the executor is shut down, the statistics are logged
Report ==
  /\ pc = "drain"
  /\ Len(drained) = NumFiles
  /\ pc' = "report"
  /\ UNCHANGED <<inputVars, workers, poolVars, mainVars, run, prevReport, textVars>>

Next ==
  \/ NoFiles
  \/ SubmitAll
  \/ \E k \in DOMAIN future : StartEval(k)
  \/ \E k \in DOMAIN future : FinishEval(k)
  \/ AsCompleted
  \/ \E k \in DOMAIN future : Drain(k)
  \/ \E k \in DOMAIN future : DrainCopyRaises(k)
  \/ Report

Spec == Init /\ [][Next]_vars

\* the threads are scheduled: main goes on while it can, and so do the workers
MainStep ==
  \/ NoFiles
  \/ SubmitAll
  \/ AsCompleted
  \/ \E k \in DOMAIN future : Drain(k) \/ DrainCopyRaises(k)
  \/ Report

WorkerStep == \E k \in DOMAIN future : StartEval(k) \/ FinishEval(k)

FairSpec == Init /\ [][Next]_vars /\ WF_vars(MainStep) /\ WF_vars(WorkerStep)

\* the program is run a second time on the same files with the same options
\* but another --workers value, into an empty output directory
Rerun ==
  /\ pc = "report"
  /\ run = 1
  /\ run' = 2
  /\ prevReport' = stats
  /\ workers' \in WorkerOptions \ {workers}
  /\ pc' = "collected"
  /\ future' = <<>>
  /\ acFinished' = {}
  /\ acWaiter' = <<>>
  /\ seen_hashes' = {}
  /\ stats' = ZeroStats
  /\ dest' = [nm \in FileNames |-> 0]
  /\ error_files' = {}
  /\ copied' = {}
  /\ drained' = <<>>
  /\ UNCHANGED <<inputVars, textVars>>

NextRerun == Next \/ Rerun

SpecRerun == Init /\ [][NextRerun]_vars

(***************************************************************************)
(* Signature blocks that differ in comments, whitespace and line breaks    *)
(***************************************************************************)

\* most tokens of a signature block after its marker
MaxBody == 4

\* the tokens of a block after the marker
BodyTokens == {"#", " ", "\n", "a"}

\* the signature blocks: a marker at column 0, then up to MaxBody tokens
Blocks == {<<"http:">> \o body : body \in UNION {[1..n -> BodyTokens] : n \in 0..MaxBody}}

\* the comment lines an edit inserts
CommentLines == {<<"#">>, <<"#", "a">>, <<" ", "#">>}

InsertTokens(s, p, ins) == SubSeq(s, 1, p-1) \o ins \o SubSeq(s, p, Len(s))

DeleteTokens(s, p, q) == SubSeq(s, 1, p-1) \o SubSeq(s, q+1, Len(s))

\* start of the line that holds the place before token p
LineStartOf(s, p) == CHOOSE q \in 1..p : IsLineStart(s, q) /\ \A r \in (q+1)..p : ~IsLineStart(s, r)

\* last token of the line whose tokens from p on hold no line break before it
LineEndOf(s, p) ==
  LET brs == {k \in p..Len(s) : s[k] = "\n"}
  IN IF brs = {} THEN Len(s) ELSE (CHOOSE k \in brs : \A j \in brs : k <= j) - 1

\* a line break put before token p splits a line that is no comment line and
\* starts no comment line
BreakInsertAwayFromComments(s, p) ==
  /\ ~IsCommentLine(SubSeq(s, LineStartOf(s, p), LineEndOf(s, p)))
  /\ ~IsCommentLine(SubSeq(s, p, LineEndOf(s, p)))

\* the line break at p joins two lines of which none is a comment line
BreakDeleteAwayFromComments(s, p) ==
  /\ ~IsCommentLine(SubSeq(s, LineStartOf(s, p), p - 1))
  /\ ~IsCommentLine(SubSeq(s, p + 1, LineEndOf(s, p + 1)))

\* the places of sigB an edit may touch: after the marker
EditPlaces == 2..(Len(sigB) + 1)

InitText ==
  /\ sigA \in Blocks
  /\ sigB = sigA
  /\ touched = FALSE
  /\ all_files = <<>>
  /\ exclude_severity = {<<"info">>}
  /\ workers = 1
  /\ collect_errors = FALSE
  /\ pc = "text"
  /\ future = <<>>
  /\ acFinished = {}
  /\ acWaiter = <<>>
  /\ seen_hashes = {}
  /\ stats = ZeroStats
  /\ dest = [nm \in FileNames |-> 0]
  /\ error_files = {}
  /\ copied = {}
  /\ drained = <<>>
  /\ run = 1
  /\ prevReport = ZeroStats

runVars == <<inputVars, workers, pc, poolVars, mainVars, run, prevReport>>

\* indentation or other whitespace inside a line is added
InsertSpace(p) ==
  /\ Len(sigB) <= MaxBody
  /\ sigB' = InsertTokens(sigB, p, <<" ">>)
  /\ UNCHANGED <<sigA, touched, runVars>>

\* whitespace inside a line is removed
DeleteSpace(p) ==
  /\ p <= Len(sigB)
  /\ sigB[p] = " "
  /\ sigB' = DeleteTokens(sigB, p, p)
  /\ UNCHANGED <<sigA, touched, runVars>>

\* a line break is added
InsertBreak(p) ==
  /\ Len(sigB) <= MaxBody
  /\ sigB' = InsertTokens(sigB, p, <<"\n">>)
  /\ touched' = (touched \/ ~BreakInsertAwayFromComments(sigB, p))
  /\ UNCHANGED <<sigA, runVars>>

\* a line break is removed
DeleteBreak(p) ==
  /\ p <= Len(sigB)
  /\ sigB[p] = "\n"
  /\ sigB' = DeleteTokens(sigB, p, p)
  /\ touched' = (touched \/ ~BreakDeleteAwayFromComments(sigB, p))
  /\ UNCHANGED <<sigA, runVars>>

\* a whole comment line is added
InsertCommentLine(p, c) ==
  /\ IsLineStart(sigB, p)
  /\ Len(sigB) + Len(c) <= MaxBody
  /\ sigB' = InsertTokens(sigB, p, c \o <<"\n">>)
  /\ UNCHANGED <<sigA, touched, runVars>>

\* a whole comment line is removed, with its line break
DeleteCommentLine(p) ==
  /\ p <= Len(sigB)
  /\ IsLineStart(sigB, p)
  /\ IsCommentLine(SubSeq(sigB, p, LineEndOf(sigB, p)))
  /\ sigB' = DeleteTokens(sigB, p, IF LineEndOf(sigB, p) < Len(sigB)
                                   THEN LineEndOf(sigB, p) + 1 ELSE LineEndOf(sigB, p))
  /\ UNCHANGED <<sigA, touched, runVars>>

NextText ==
  \/ \E p \in EditPlaces : InsertSpace(p)
  \/ \E p \in EditPlaces : DeleteSpace(p)
  \/ \E p \in EditPlaces : InsertBreak(p)
  \/ \E p \in EditPlaces : DeleteBreak(p)
  \/ \E p \in EditPlaces : \E c \in CommentLines : InsertCommentLine(p, c)
  \/ \E p \in EditPlaces : DeleteCommentLine(p)

SpecText == InitText /\ [][NextText]_vars

(***************************************************************************)
(* Vocabulary of the properties                                            *)
(***************************************************************************)

Files == 1..NumFiles

ResultOf(k) == FutureResult(k)

\* the evaluated files that share the fingerprint of k
Group(k) == {j \in Files : ~ResultOf(j).none /\ ResultOf(j).hash = ResultOf(k).hash}

\* k has a result that neither the severity nor the keyword rule excludes
Keepable(k) ==
  /\ ~ResultOf(k).none
  /\ ResultOf(k).severity \notin exclude_severity
  /\ ~ResultOf(k).skip_keyword

DrainedSet == {drained[i] : i \in 1..Len(drained)}

\* position of k in the drain order
Pos(k) == CHOOSE i \in 1..Len(drained) : drained[i] = k

\* this step is the loop iteration for the result of k
Handles(k) == drained' = Append(drained, k)

\* the counters other than c are left alone by this step
OnlyCounter(c) ==
  /\ stats'[c] = stats[c] + 1
  /\ \A d \in DOMAIN stats \ {c} : stats'[d] = stats[d]

(***************************************************************************)
(* C1                                                                      *)
(***************************************************************************)

\* C1 as stated: when the run reports, every group of evaluated files that
\* share a fingerprint has exactly one member in the output directory.
C1_ExactlyOnePerGroup ==
  pc = "report" => \A k \in Files :
    ~ResultOf(k).none => Cardinality(Group(k) \cap copied) = 1

\* C1: at any time at most one member of a group of evaluated files sharing a
\* fingerprint has been copied; when the run reports, a group has exactly one
\* copied member if some member is neither severity-excluded nor
\* keyword-excluded, and none otherwise.
C1_AtMostOnePerGroup ==
  \A k \in Files : ~ResultOf(k).none =>
    /\ Cardinality(Group(k) \cap copied) <= 1
    /\ pc = "report" =>
         Cardinality(Group(k) \cap copied) = (IF \E j \in Group(k) : Keepable(j) THEN 1 ELSE 0)

\* a reported run with a group of two of which one was copied
C1_Witness ==
  /\ pc = "report"
  /\ \E k \in Files : ~ResultOf(k).none /\ Cardinality(Group(k)) = 2
                     /\ Cardinality(Group(k) \cap copied) = 1

(***************************************************************************)
(* C2                                                                      *)
(***************************************************************************)

\* C2 as stated: a second run on the same files and exclusion set with another
\* number of workers reports the same five counters as the first.
C2_SameStatistics == (run = 2 /\ pc = "report") => stats = prevReport

\* C2: two runs on the same files and exclusion set that differ in the number
\* of workers, and so in completion order, report the same copied count, the
\* same error count and the same total of duplicate, severity-excluded and
\* keyword-excluded files; the split of that total may differ.
C2_SameCopiedAndErrors ==
  (run = 2 /\ pc = "report") =>
    /\ stats.copied = prevReport.copied
    /\ stats.error = prevReport.error
    /\ stats.duplicate + stats.severity_skipped + stats.keyword_skipped
         = prevReport.duplicate + prevReport.severity_skipped + prevReport.keyword_skipped

\* a second run that reports other counters than the first
C2_Witness == run = 2 /\ pc = "report" /\ stats # prevReport

(***************************************************************************)
(* C3                                                                      *)
(***************************************************************************)

\* C3 as stated: a copied file is the member of its group that was drained
\* first.
C3_KeptIsFirstDrained ==
  \A k \in copied : \A j \in Group(k) \cap DrainedSet : Pos(k) <= Pos(j)

\* C3: a copied file has its fingerprint in seen_hashes and is the first
\* drained among the members of its group that are neither severity-excluded
\* nor keyword-excluded; excluded members drained before it do not count.
C3_KeptIsFirstKeepable ==
  \A k \in copied :
    /\ ResultOf(k).hash \in seen_hashes
    /\ k \in DrainedSet
    /\ \A j \in Group(k) \cap DrainedSet : Keepable(j) => Pos(k) <= Pos(j)

\* two keepable files of one group were drained, the first one was copied
C3_Witness ==
  \E k \in copied : \E j \in (Group(k) \cap DrainedSet) \ {k} :
    Keepable(j) /\ Pos(k) < Pos(j)

(***************************************************************************)
(* C4                                                                      *)
(***************************************************************************)

\* C4: no file whose lower-cased severity is in the exclusion set is ever
\* copied, and the iteration for such a file, when no member of its group was
\* copied before (it is the first of its group, or alone in it), counts it
\* as severity-excluded.
C4_ExcludedSeverityNeverCopied ==
  [][\A k \in Files :
       (~ResultOf(k).none /\ ResultOf(k).severity \in exclude_severity) =>
         /\ k \notin copied'
         /\ dest'[all_files[k].filename] # k
         /\ (Handles(k) /\ Group(k) \cap copied = {}) =>
              (OnlyCounter("severity_skipped") /\ seen_hashes' = seen_hashes)]_vars

\* a file with an excluded severity and a fingerprint of its own was drained
\* and counted
C4_Witness ==
  \E k \in DrainedSet :
    /\ ~ResultOf(k).none
    /\ ResultOf(k).severity \in exclude_severity
    /\ Group(k) = {k}
    /\ stats.severity_skipped = 1
    /\ k \notin copied

(***************************************************************************)
(* C5                                                                      *)
(***************************************************************************)

\* the counter the precedence (a) to (e) gives for the result of k
Precedence(k) ==
  CASE ResultOf(k).none -> "error"
    [] ~ResultOf(k).none /\ ResultOf(k).hash \in seen_hashes -> "duplicate"
    [] ~ResultOf(k).none /\ ResultOf(k).hash \notin seen_hashes
         /\ ResultOf(k).severity \in exclude_severity -> "severity_skipped"
    [] ~ResultOf(k).none /\ ResultOf(k).hash \notin seen_hashes
         /\ ResultOf(k).severity \notin exclude_severity
         /\ ResultOf(k).skip_keyword -> "keyword_skipped"
    [] OTHER -> "copied"

\* what the iteration for k does when it acts on the first case that applies
ActsOnFirstCase(k) ==
  /\ OnlyCounter(Precedence(k))
  /\ IF Precedence(k) = "copied"
     THEN /\ seen_hashes' = seen_hashes \cup {ResultOf(k).hash}
          /\ copied' = copied \cup {k}
          /\ dest' = [dest EXCEPT ![all_files[k].filename] = k]
     ELSE UNCHANGED <<seen_hashes, copied, dest>>

\* C5 as stated: every drained result is handled by the first case that
\* applies, with exactly one counter incremented by 1, and copy and insertion
\* in case (e) only.
C5_OneCounterPerResult == [][\A k \in Files : Handles(k) => ActsOnFirstCase(k)]_vars

\* C5: every drained result is handled by the first case that applies, in the
\* order (a) to (e); an iteration that runs to its end increments exactly one
\* counter by 1 and copies and inserts in case (e) only; in case (e) the
\* fingerprint is inserted before the copy, so when the copy raises the
\* fingerprint is inserted, no counter is incremented and the run ends.
C5_OneCounterUnlessCopyRaises ==
  [][\A k \in Files : Handles(k) =>
       IF pc' = "aborted"
       THEN /\ Precedence(k) = "copied"
            /\ seen_hashes' = seen_hashes \cup {ResultOf(k).hash}
            /\ UNCHANGED <<stats, copied>>
       ELSE ActsOnFirstCase(k)]_vars

\* a file whose severity is excluded was drained after a copied member of its
\* group and counted as a duplicate: case (b) before case (c)
C5_Witness ==
  \E k \in DrainedSet :
    /\ ~ResultOf(k).none
    /\ ResultOf(k).severity \in exclude_severity
    /\ stats.duplicate = 1
    /\ stats.copied = 1
    /\ stats.severity_skipped = 0
    /\ Len(drained) = 2

(***************************************************************************)
(* C6                                                                      *)
(***************************************************************************)

\* C6: the iteration for a file whose evaluation raised increments the error
\* counter only, leaves seen_hashes, the other counters and the output
\* directory alone and stays in the loop, where the results not yet drained
\* remain to be yielded.
C6_FailedFileOnlyCounted ==
  [][\A k \in Files : (Handles(k) /\ Raises(all_files[k])) =>
       /\ OnlyCounter("error")
       /\ UNCHANGED <<seen_hashes, copied, dest>>
       /\ pc' = "drain"
       /\ \A j \in Files \ (DrainedSet \cup {k}) :
            j \in acFinished' \/ (\E i \in 1..Len(acWaiter') : acWaiter'[i] = j)
                              \/ future'[j] # "FINISHED"]_vars

\* a file that could not be read was drained first and counted, then another
\* file was copied
C6_Witness ==
  /\ Len(drained) = 2
  /\ Raises(all_files[drained[1]])
  /\ stats.error = 1
  /\ drained[2] \in copied

(***************************************************************************)
(* C7                                                                      *)
(***************************************************************************)

\* C7 as stated: every run eventually reaches the report.
C7_AlwaysReports == <>(pc = "report")

\* C7: every run that enumerated at least one file eventually reports its
\* statistics, however many of the files failed evaluation, unless a copy to
\* the output directory raises, which ends the run without a report; a run
\* that enumerated no file returns after a warning, without a report.
C7_ReportsUnlessEmptyOrCopyRaises ==
  (all_files # <<>>) => <>(pc = "report" \/ pc = "aborted")

\* a run in which every file failed evaluation has reported
C7_Witness == pc = "report" /\ NumFiles = 2 /\ stats.error = 2

(***************************************************************************)
(* C8                                                                      *)
(***************************************************************************)

\* no line of the text starts with requests: or http:
NoMarkerLine(text) ==
  \A i \in 1..Len(SplitLines(text)) :
    SplitLines(text)[i] = <<>> \/ SplitLines(text)[i][1] \notin Markers

\* C8: a readable file without a line starting with requests: or http: gets
\* no fingerprint, is never copied, and its iteration increments the error
\* counter only and leaves seen_hashes alone.
C8_NoSignatureIsError ==
  [][\A k \in Files : (all_files[k].readable /\ NoMarkerLine(all_files[k].text)) =>
       /\ ResultOf(k).none
       /\ k \notin copied'
       /\ Handles(k) => (OnlyCounter("error") /\ UNCHANGED <<seen_hashes, copied, dest>>)]_vars

\* a file without a marker line, but with a keyword line, was drained and
\* counted as an error
C8_Witness ==
  \E k \in DrainedSet :
    /\ all_files[k].readable
    /\ NoMarkerLine(all_files[k].text)
    /\ SkipKeywordOf(all_files[k].text)
    /\ stats.error = 1
    /\ Len(drained) = 1

(***************************************************************************)
(* C9                                                                      *)
(***************************************************************************)

\* the result of evaluating a file with this text
Evaluated(text) ==
  process_file([path |-> 1, filename |-> "a.yaml", readable |-> TRUE, text |-> text])

\* the two blocks get the same normalized signature and the same fingerprint
SameSignature ==
  /\ Condense(RequestBlockRaw(sigA)) = Condense(RequestBlockRaw(sigB))
  /\ ~Evaluated(sigA).none
  /\ ~Evaluated(sigB).none
  /\ Evaluated(sigA).hash = Evaluated(sigB).hash

\* C9 as stated: two signature blocks that differ only in comment lines,
\* indentation, other whitespace or line breaks get the same normalized
\* signature and fingerprint.
C9_SameSignature == SameSignature

\* C9: two signature blocks that differ only in whole comment lines, in
\* whitespace inside lines (indentation included), or in line breaks that
\* split a line that is no comment line without starting a comment line, or
\* join two lines of which none is a comment line, get the same normalized
\* signature and fingerprint.
C9_SameSignatureAwayFromComments == ~touched => SameSignature

\* the blocks differ in a comment line and in a line break
C9_Witness ==
  /\ ~touched
  /\ sigA = <<"http:", "a">>
  /\ sigB = <<"http:", "\n", "#", "\n", "a">>

(***************************************************************************)
(* C10                                                                     *)
(***************************************************************************)

\* b is a with one whole comment line inserted
CommentLineInserted(a, b) ==
  \E p \in 2..(Len(a) + 1) : \E q \in p..Len(b) :
    /\ IsLineStart(a, p)
    /\ Len(b) = Len(a) + (q - p + 1)
    /\ b = InsertTokens(a, p, SubSeq(b, p, q))
    /\ b[q] = "\n"
    /\ \A i \in p..(q-1) : b[i] # "\n"
    /\ IsCommentLine(SubSeq(b, p, q - 1))

\* b is a with one whitespace token inserted inside a line
SpaceInserted(a, b) == \E p \in 2..(Len(a) + 1) : b = InsertTokens(a, p, <<" ">>)

\* b is a with one line break inserted
BreakInserted(a, b) == \E p \in 2..(Len(a) + 1) : b = InsertTokens(a, p, <<"\n">>)

\* b is a with one line break inserted away from comment lines
BreakInsertedAwayFromComments(a, b) ==
  \E p \in 2..(Len(a) + 1) :
    b = InsertTokens(a, p, <<"\n">>) /\ BreakInsertAwayFromComments(a, p)

\* the blocks differ only by an inserted comment line, or in whitespace
DifferInCommentOrWhitespace(a, b) ==
  \/ CommentLineInserted(a, b) \/ CommentLineInserted(b, a)
  \/ SpaceInserted(a, b) \/ SpaceInserted(b, a)
  \/ BreakInserted(a, b) \/ BreakInserted(b, a)

\* the same, with line breaks away from comment lines only
DifferAwayFromComments(a, b) ==
  \/ CommentLineInserted(a, b) \/ CommentLineInserted(b, a)
  \/ SpaceInserted(a, b) \/ SpaceInserted(b, a)
  \/ BreakInsertedAwayFromComments(a, b) \/ BreakInsertedAwayFromComments(b, a)

\* the run is over two readable files that both have an http: block
TwoHttpFiles ==
  /\ NumFiles = 2
  /\ \A k \in Files :
       /\ all_files[k].readable
       /\ MatchReq(all_files[k].text) # 0
       /\ all_files[k].text[MatchReq(all_files[k].text)] = "http:"

BlockOfFile(k) == RequestBlockRaw(all_files[k].text)

\* one of the two files was copied, the other counted as a duplicate
OneCopiedOneDuplicate ==
  /\ Cardinality(copied) = 1
  /\ stats = [copied |-> 1, duplicate |-> 1, severity_skipped |-> 0,
              keyword_skipped |-> 0, error |-> 0]

\* C10 as stated: a run over two files whose http: blocks differ only by an
\* inserted comment line, or only in comments and whitespace, ends with one
\* file copied and the other counted as a duplicate.
C10_OneCopiedOneDuplicate ==
  (pc = "report" /\ TwoHttpFiles /\ DifferInCommentOrWhitespace(BlockOfFile(1), BlockOfFile(2)))
    => OneCopiedOneDuplicate

\* C10: a reported run over two files whose http: blocks differ only by an
\* inserted comment line, by whitespace inside a line or by a line break away
\* from comment lines, and of which none is severity-excluded or
\* keyword-excluded, ends with one file copied and the other counted as a
\* duplicate, in either completion order.
C10_OneCopiedOneDuplicateIfKeepable ==
  (/\ pc = "report"
   /\ TwoHttpFiles
   /\ DifferAwayFromComments(BlockOfFile(1), BlockOfFile(2))
   /\ Keepable(1)
   /\ Keepable(2))
    => OneCopiedOneDuplicate

\* the file with the inserted comment line was drained first and copied, the
\* other one counted as a duplicate
C10_Witness ==
  /\ pc = "report"
  /\ TwoHttpFiles
  /\ all_files[1].text = PocPlain
  /\ all_files[2].text = PocComment
  /\ drained = <<2, 1>>
  /\ copied = {2}
  /\ stats.duplicate = 1

(***************************************************************************)
(* C11                                                                     *)
(***************************************************************************)

\* some line of the text holds a primary keyword and a secondary keyword
KeywordsOnOneLine(text) ==
  \E p, q \in 1..Len(text) :
    /\ text[p] \in primary_keywords
    /\ text[q] \in secondary_keywords
    /\ \A r \in 1..Len(text) : ((p <= r /\ r <= q) \/ (q <= r /\ r <= p)) => text[r] # "\n"

\* the counter for a file with a keyword line, by what precedes the keyword
\* test in the loop body
CounterOfKeywordFile(k) ==
  IF MatchReq(all_files[k].text) = 0 THEN "error"
  ELSE IF ResultOf(k).hash \in seen_hashes THEN "duplicate"
  ELSE IF ResultOf(k).severity \in exclude_severity THEN "severity_skipped"
  ELSE "keyword_skipped"

\* C11 as stated: a file with a line that holds a primary and a secondary
\* keyword gets the keyword flag, is counted as keyword-excluded and is never
\* copied.
C11_KeywordLineIsKeywordExcluded ==
  [][\A k \in Files : (all_files[k].readable /\ KeywordsOnOneLine(all_files[k].text)) =>
       /\ k \notin copied'
       /\ Handles(k) => (/\ ~ResultOf(k).none
                         /\ ResultOf(k).skip_keyword
                         /\ OnlyCounter("keyword_skipped"))]_vars

\* C11: a file with a line that holds a primary and a secondary keyword is
\* never copied; if it has a signature block it gets the keyword flag, and its
\* iteration counts it as keyword-excluded unless an earlier case applies: as
\* a duplicate if its fingerprint was seen, else as severity-excluded if its
\* severity is excluded; without a signature block it is counted as an error.
C11_KeywordLineNeverCopied ==
  [][\A k \in Files : (all_files[k].readable /\ KeywordsOnOneLine(all_files[k].text)) =>
       /\ k \notin copied'
       /\ dest'[all_files[k].filename] # k
       /\ (MatchReq(all_files[k].text) # 0) => (~ResultOf(k).none /\ ResultOf(k).skip_keyword)
       /\ Handles(k) => (/\ OnlyCounter(CounterOfKeywordFile(k))
                         /\ UNCHANGED <<seen_hashes, copied, dest>>)]_vars

\* a file with a signature block and a keyword line was drained alone and
\* counted as keyword-excluded
C11_Witness ==
  \E k \in DrainedSet :
    /\ all_files[k].readable
    /\ KeywordsOnOneLine(all_files[k].text)
    /\ MatchReq(all_files[k].text) # 0
    /\ Len(drained) = 1
    /\ stats.keyword_skipped = 1
    /\ copied = {}

(***************************************************************************)
(* C12                                                                     *)
(***************************************************************************)

\* C12: normalizing a signature block (its comment lines dropped, then all
\* whitespace removed) a second time changes nothing.
C12_NormalizeIdempotent ==
  \A s \in {sigA, sigB} : Condense(Condense(s)) = Condense(s)

\* a block with a line break and a comment line, indented by an edit, which
\* normalization shortens to its marker and its body
C12_Witness ==
  /\ sigA = <<"http:", "a", "\n", "#">>
  /\ sigB = <<"http:", " ", "a", "\n", "#">>
  /\ Condense(sigB) = <<"http:", "a">>
  /\ Condense(Condense(sigB)) = <<"http:", "a">>

(***************************************************************************)
(* C13                                                                     *)
(***************************************************************************)

\* k has a result that the severity rule or the keyword rule excludes
Excluded(k) ==
  /\ ~ResultOf(k).none
  /\ ResultOf(k).severity \in exclude_severity \/ ResultOf(k).skip_keyword

\* C13: the iteration for a file excluded by severity or by keyword leaves
\* seen_hashes alone, and when the run reports, every group with a member that
\* has a signature, a severity that is not excluded and no keyword flag has
\* exactly one copied member, in every completion order.
C13_ExcludedTakesNoSlot ==
  [][/\ \A k \in Files : (Handles(k) /\ Excluded(k)) => seen_hashes' = seen_hashes
     /\ pc' = "report" =>
          \A k \in Files : Keepable(k) => Cardinality(Group(k) \cap copied') = 1]_vars

\* an excluded member of a group was drained first, the other member of the
\* group was copied after it, and the run has reported
C13_Witness ==
  /\ pc = "report"
  /\ drained = <<1, 2>>
  /\ Excluded(1)
  /\ Keepable(2)
  /\ Group(1) = {1, 2}
  /\ copied = {2}

(***************************************************************************)
(* C14                                                                     *)
(***************************************************************************)

\* the fingerprints of a set of files
HashesOf(ks) == {ResultOf(k).hash : k \in ks}

\* C14: a step changes seen_hashes only by the iteration for a file inserting
\* a fingerprint that was not in it, nothing is ever removed, and in every
\* state where main is before or between two iterations, or past the loop,
\* seen_hashes holds exactly the fingerprints of the copied files, its size is
\* the copied counter, and no two copied files share a fingerprint.
C14_SeenMatchesCopied ==
  [][/\ seen_hashes \subseteq seen_hashes'
     /\ seen_hashes' # seen_hashes =>
          \E k \in Files : /\ Handles(k)
                           /\ ResultOf(k).hash \notin seen_hashes
                           /\ seen_hashes' = seen_hashes \cup {ResultOf(k).hash}
     /\ pc' # "aborted" =>
          /\ seen_hashes' = HashesOf(copied')
          /\ Cardinality(seen_hashes') = stats'.copied
          /\ \A j, k \in copied' : ResultOf(j).hash = ResultOf(k).hash => j = k]_vars

\* two files of one group were drained: one fingerprint, one copied file, one
\* duplicate
C14_Witness ==
  /\ pc = "drain"
  /\ Len(drained) = 2
  /\ Cardinality(seen_hashes) = 1
  /\ Cardinality(copied) = 1
  /\ stats.copied = 1
  /\ stats.duplicate = 1

(***************************************************************************)
(* C15                                                                     *)
(***************************************************************************)

\* C15: a step of the pool (a future is created, starts to run or finishes,
\* in any interleaving of the worker threads) leaves seen_hashes and the five
\* counters alone; they change only in a step of main's loop, which handles
\* exactly one result, so no two results are tested against and inserted into
\* seen_hashes at once.
C15_OnlyDrainMutates ==
  [][/\ future' # future => UNCHANGED <<seen_hashes, stats>>
     /\ (seen_hashes' # seen_hashes \/ stats' # stats) =>
          /\ pc = "drain"
          /\ future' = future
          /\ Len(drained') = Len(drained) + 1
          /\ Cardinality({k \in Files : Handles(k)}) = 1]_vars

\* main has copied one file while a worker thread is still evaluating another
C15_Witness ==
  /\ pc = "drain"
  /\ Len(drained) = 1
  /\ stats.copied = 1
  /\ seen_hashes # {}
  /\ \E k \in Files \ DrainedSet : future[k] = "RUNNING"

(***************************************************************************)
(* C16                                                                     *)
(***************************************************************************)

\* the sum of the five counters
CounterSum ==
  stats.copied + stats.duplicate + stats.severity_skipped + stats.keyword_skipped + stats.error

\* every enumerated file has one future once the files are submitted, and no
\* result is drained twice
OnceEach ==
  /\ pc \notin {"collected", "returned"} => DOMAIN future = Files
  /\ DrainedSet \subseteq Files
  /\ \A i, j \in 1..Len(drained) : drained[i] = drained[j] => i = j

\* C16 as stated: every file is submitted once and its result drained once;
\* the sum of the five counters is the number of results drained so far, and
\* the number of enumerated files when the run reports.
C16_SumIsDrained ==
  /\ OnceEach
  /\ CounterSum = Len(drained)
  /\ pc = "report" => (CounterSum = NumFiles /\ DrainedSet = Files)

\* C16: every file is submitted once and its result drained at most once; the
\* sum of the five counters is the number of results drained so far, except
\* after a copy to the output directory raised, where the result in hand is
\* drained but not counted and the run ends without a report; when the run
\* reports, every result was drained and the sum is the number of enumerated
\* files.
C16_SumIsDrainedUnlessCopyRaises ==
  /\ OnceEach
  /\ CounterSum = (IF pc = "aborted" THEN Len(drained) - 1 ELSE Len(drained))
  /\ pc = "report" => (CounterSum = NumFiles /\ DrainedSet = Files)

\* a run over two files has reported, one file counted as an error and one as
\* keyword-excluded
C16_Witness ==
  /\ pc = "report"
  /\ NumFiles = 2
  /\ CounterSum = 2
  /\ stats.error = 1
  /\ stats.keyword_skipped = 1

(***************************************************************************)
(* C17                                                                     *)
(***************************************************************************)

\* the fingerprints of the files that neither rule excludes: a value of the
\* input and the options alone
KeepableHashes == HashesOf({k \in Files : Keepable(k)})

\* C17: when a run reports, seen_hashes and the copied counter are given by
\* the files and the options alone, whatever the completion order was: so a
\* second run on the same input with another number of workers ends with the
\* same seen_hashes and the same copied counter as the first.
C17_CopiedAndSeenFixedByInput ==
  pc = "report" =>
    /\ seen_hashes = KeepableHashes
    /\ stats.copied = Cardinality(KeepableHashes)
    /\ run = 2 => stats.copied = prevReport.copied

\* a second run has reported the same copied counter as the first, with
\* another split of the files that were not copied
C17_Witness ==
  /\ run = 2
  /\ pc = "report"
  /\ stats.copied = 1
  /\ Cardinality(seen_hashes) = 1
  /\ stats.duplicate # prevReport.duplicate

(***************************************************************************)
(* C18                                                                     *)
(***************************************************************************)

\* the copied files whose filename is nm
KeptWithName(nm) == {k \in copied : all_files[k].filename = nm}

\* the last of them in drain order, 0 if there is none
LastKept(nm) ==
  IF KeptWithName(nm) = {} THEN 0
  ELSE CHOOSE k \in KeptWithName(nm) : \A j \in KeptWithName(nm) : Pos(j) <= Pos(k)

\* the filenames present in the output directory
DestFiles == {nm \in FileNames : dest[nm] # 0}

\* C18: the output directory holds, under each filename, the last kept file
\* in drain order that has this filename and nothing under a filename no kept
\* file has, during the loop and when the run reports; it never holds more
\* files than the copied counter says, and holds fewer when two kept files
\* share a filename.
C18_LastWriteWins ==
  pc # "aborted" =>
    /\ \A nm \in FileNames : dest[nm] = LastKept(nm)
    /\ Cardinality(DestFiles) <= stats.copied
    /\ (\E j, k \in copied : j # k /\ all_files[j].filename = all_files[k].filename)
         => Cardinality(DestFiles) < stats.copied

\* two kept files of different directories have the same filename: the run
\* has reported two copies and the output directory holds the second only
C18_Witness ==
  /\ pc = "report"
  /\ stats.copied = 2
  /\ Len(drained) = 2
  /\ all_files[1].filename = all_files[2].filename
  /\ DestFiles = {all_files[1].filename}
  /\ dest[all_files[1].filename] = drained[2]

=============================================================================
